---- MODULE Spec2Model ----
(***************************************************************************)
(* Heat Acclimation Calendar (src/app.py).                                 *)
(*                                                                         *)
(* A datetime is a record [ord, tod]: ord is the proleptic Gregorian       *)
(* ordinal of its calendar day (0001-01-01 is 1), tod the seconds since    *)
(* midnight.  Python's None is the string "None", NoneDate where a         *)
(* datetime is expected, and NoDay as the day number of a padding cell,    *)
(* (None, None) in the source.                                             *)
(***************************************************************************)
EXTENDS Integers, Sequences, FiniteSets, TLC

----------------------------------------------------------------------------
(* Bounds of the model                                                     *)

\* race dates 0001-01-01 .. 0001-01-01 + EarlyDays - 1 are submitted
EarlyDays == 52
\* length of every other window of submitted race dates
WindowDays == 8
\* longest date list handed to months_to_show on its own
MaxDates == 3
\* consecutive days the date sets handed to the grid builders are drawn from
GridDays == 2

----------------------------------------------------------------------------
(* datetime, timedelta, calendar                                           *)

None == "None"
NoDay == 0
\* None where a datetime is expected: no day has ordinal 0
NoneDate == [ord |-> 0, tod |-> 0]

MinOrdinal == 1
MaxOrdinal == 3652059

DAYS_IN_MONTH == <<31, 28, 31, 30, 31, 30, 31, 31, 30, 31, 30, 31>>
DAYS_BEFORE_MONTH == <<0, 31, 59, 90, 120, 151, 181, 212, 243, 273, 304, 334>>

is_leap(year) == year % 4 = 0 /\ (year % 100 # 0 \/ year % 400 = 0)

days_in_month(year, month) ==
    IF month = 2 /\ is_leap(year) THEN 29 ELSE DAYS_IN_MONTH[month]

days_before_year(year) ==
    LET y == year - 1
    IN  y * 365 + (y \div 4) - (y \div 100) + (y \div 400)

\* variant: the leap day is not counted
days_before_month_noleap(year, month) == DAYS_BEFORE_MONTH[month]

days_before_month(year, month) ==
    DAYS_BEFORE_MONTH[month] + (IF month > 2 /\ is_leap(year) THEN 1 ELSE 0)

ymd2ord(year, month, day) ==
    days_before_year(year) + days_before_month(year, month) + day

\* year, month, day of an ordinal, by the 400/100/4/1-year cycle division
ord2ymd(ordinal) ==
    LET n0   == ordinal - 1
        n400 == n0 \div 146097
        r400 == n0 % 146097
        n100 == r400 \div 36524
        r100 == r400 % 36524
        n4   == r100 \div 1461
        r4   == r100 % 1461
        n1   == r4 \div 365
        n    == r4 % 365
        year == n400 * 400 + 1 + n100 * 100 + n4 * 4 + n1
        leapyear == n1 = 3 /\ (n4 # 24 \/ n100 = 3)
        month0 == (n + 50) \div 32
        prec0  == DAYS_BEFORE_MONTH[month0]
                    + (IF month0 > 2 /\ leapyear THEN 1 ELSE 0)
        month  == IF prec0 > n THEN month0 - 1 ELSE month0
        prec   == IF prec0 > n
                  THEN prec0 - (DAYS_IN_MONTH[month]
                                 + (IF month = 2 /\ leapyear THEN 1 ELSE 0))
                  ELSE prec0
    IN  IF n1 = 4 \/ n100 = 4
        THEN <<year - 1, 12, 31>>
        ELSE <<year, month, n - prec + 1>>

\* datetime(year, month, day): midnight of that day
datetime(year, month, day) == [ord |-> ymd2ord(year, month, day), tod |-> 0]

\* d.replace(hour=0, minute=0, second=0, microsecond=0)
replace_midnight(d) == [d EXCEPT !.tod = 0]

\* d + timedelta(days=n), before the range check
plus_days(d, n) == [d EXCEPT !.ord = d.ord + n]

\* variant: ordinal 0 passes the range check
in_range_from_zero(d) == d.ord >= 0 /\ d.ord <= MaxOrdinal

\* the sum is a datetime; otherwise the addition raises OverflowError
in_range(d) == d.ord >= MinOrdinal /\ d.ord <= MaxOrdinal

\* d.weekday(): 0 = Monday .. 6 = Sunday
weekday(d) == (d.ord + 6) % 7

\* d.year, d.month
year_of(d) == ord2ymd(d.ord)[1]
month_of(d) == ord2ymd(d.ord)[2]
day_of(d) == ord2ymd(d.ord)[3]

\* calendar.monthcalendar(year, month): weeks start on Monday, 0 pads
monthcalendar(year, month) ==
    LET day1   == weekday(datetime(year, month, 1))
        ndays  == days_in_month(year, month)
        before == day1 % 7
        after  == (0 - day1 - ndays) % 7
        nweeks == (before + ndays + after) \div 7
        dayAt(k) == IF k <= before \/ k > before + ndays THEN 0 ELSE k - before
    IN  [w \in 1..nweeks |-> [c \in 1..7 |-> dayAt((w - 1) * 7 + c)]]

----------------------------------------------------------------------------
(* Protocol constants                                                      *)

PROTOCOL1_BOUT_START_DAYS_OUT == 19
PROTOCOL1_BOUT_DAYS == 10
\* variant: the first maintenance session on the last bout day
PROTOCOL1_MAINTENANCE_DAYS_overlap == <<10, 5>>
PROTOCOL1_MAINTENANCE_DAYS == <<7, 5>>

\* the result of a call that raised OverflowError
Raised1 == [raised |-> TRUE, bout |-> <<>>, maintenance |-> <<>>]
Raised2 == [raised |-> TRUE, bout1 |-> <<>>, maintenance |-> <<>>, bout2 |-> <<>>]

\* no addition that builds the list raises OverflowError
all_in_range(s) == \A i \in 1..Len(s) : in_range(s[i])

\* variant: range(PROTOCOL1_BOUT_DAYS - 1)
protocol1_sessions_short(race_date) ==
    LET first_day == plus_days(race_date, 0 - PROTOCOL1_BOUT_START_DAYS_OUT)
        bout == [i \in 1..(PROTOCOL1_BOUT_DAYS - 1) |-> plus_days(first_day, i - 1)]
        maintenance == [k \in 1..Len(PROTOCOL1_MAINTENANCE_DAYS) |->
                          plus_days(race_date, 0 - PROTOCOL1_MAINTENANCE_DAYS[k])]
    IN  IF in_range(first_day) /\ all_in_range(bout) /\ all_in_range(maintenance)
        THEN [raised |-> FALSE, bout |-> bout, maintenance |-> maintenance]
        ELSE Raised1

protocol1_sessions(race_date) ==
    LET first_day == plus_days(race_date, 0 - PROTOCOL1_BOUT_START_DAYS_OUT)
        bout == [i \in 1..PROTOCOL1_BOUT_DAYS |-> plus_days(first_day, i - 1)]
        maintenance == [k \in 1..Len(PROTOCOL1_MAINTENANCE_DAYS) |->
                          plus_days(race_date, 0 - PROTOCOL1_MAINTENANCE_DAYS[k])]
    IN  IF in_range(first_day) /\ all_in_range(bout) /\ all_in_range(maintenance)
        THEN [raised |-> FALSE, bout |-> bout, maintenance |-> maintenance]
        ELSE Raised1

\* variant: the first rest day of each week moved one day later
bout1_offsets_late_rest == <<0, 1, 2, 4, 5, 7, 8, 9, 11, 12, 13>>
bout1_offsets == <<0, 1, 3, 4, 5, 7, 8, 10, 11, 12, 13>>

\* variant: the weeks 3, 2 and 1 before the race
maintenance_weeks_out_late == <<3, 2, 1>>
maintenance_weeks_out == <<4, 3, 2>>

\* variant: the rest day of week 1 moved one day earlier
bout2_week1_offsets_early_rest == <<12, 11, 10, 8, 7, 6>>
bout2_week1_offsets == <<12, 11, 9, 8, 7, 6>>
bout2_week2_offsets == <<5, 4, 2>>

\* variant: isoweekday() (1 = Monday) in place of weekday()
monday_of_iso(week_center) == plus_days(week_center, 0 - (weekday(week_center) + 1))

\* week_center - timedelta(days=week_center.weekday())
monday_of(week_center) == plus_days(week_center, 0 - weekday(week_center))

protocol2_sessions(race_date) ==
    LET race_norm == replace_midnight(race_date)
        offset == weekday(race_norm) - 5
        six_weeks == plus_days(race_norm, 0 - 42)
        monday_6w == monday_of(six_weeks)
        block_start == plus_days(monday_6w, offset)
        bout1 == [i \in 1..Len(bout1_offsets) |-> plus_days(block_start, bout1_offsets[i])]
        week_center(k) == plus_days(race_norm, 0 - maintenance_weeks_out[k] * 7)
        monday_of_week(k) == monday_of(week_center(k))
        block_start_m(k) == plus_days(monday_of_week(k), offset)
        maintenance == [j \in 1..(2 * Len(maintenance_weeks_out)) |->
                          IF j % 2 = 1
                          THEN plus_days(block_start_m((j + 1) \div 2), 2)
                          ELSE plus_days(block_start_m(j \div 2), 5)]
        bout2_week1 == [i \in 1..Len(bout2_week1_offsets) |->
                          plus_days(race_norm, 0 - bout2_week1_offsets[i])]
        bout2_week2 == [i \in 1..Len(bout2_week2_offsets) |->
                          plus_days(race_norm, 0 - bout2_week2_offsets[i])]
        bout2 == bout2_week1 \o bout2_week2
        ok == /\ in_range(six_weeks) /\ in_range(monday_6w) /\ in_range(block_start)
              /\ all_in_range(bout1)
              /\ \A k \in 1..Len(maintenance_weeks_out) :
                    /\ in_range(week_center(k))
                    /\ in_range(monday_of_week(k))
                    /\ in_range(block_start_m(k))
              /\ all_in_range(maintenance)
              /\ all_in_range(bout2)
    IN  IF ok
        THEN [raised |-> FALSE, bout1 |-> bout1, maintenance |-> maintenance,
              bout2 |-> bout2]
        ELSE Raised2

----------------------------------------------------------------------------
(* Normalizer, grid builder, month selection                               *)

Range(s) == {s[i] : i \in 1..Len(s)}

sessions_to_set(sessions) == {replace_midnight(d) : d \in Range(sessions)}

\* a padding cell (None, None) and an in-month cell (day, cell_type)
Cell(day, cell_type) == [day |-> day, type |-> cell_type]
EmptyCell == Cell(NoDay, None)

\* the branch chain of lines 109-116; race_norm is NoneDate or a datetime
cell_type_protocol1(d_norm, bout_set, maint_set, race_norm) ==
    IF race_norm # NoneDate /\ d_norm = race_norm THEN "race"
    ELSE IF d_norm \in bout_set THEN "bout"
    ELSE IF d_norm \in maint_set THEN "maintenance"
    ELSE None

\* variant: the bout2 branch before the maintenance branch
cell_type_protocol2_swapped(d_norm, bout1_set, maint_set, bout2_set, race_norm) ==
    IF race_norm # NoneDate /\ d_norm = race_norm THEN "race"
    ELSE IF d_norm \in bout1_set THEN "bout1"
    ELSE IF d_norm \in bout2_set THEN "bout2"
    ELSE IF d_norm \in maint_set THEN "maintenance"
    ELSE None

\* the branch chain of lines 146-155
cell_type_protocol2(d_norm, bout1_set, maint_set, bout2_set, race_norm) ==
    IF race_norm # NoneDate /\ d_norm = race_norm THEN "race"
    ELSE IF d_norm \in bout1_set THEN "bout1"
    ELSE IF d_norm \in maint_set THEN "maintenance"
    ELSE IF d_norm \in bout2_set THEN "bout2"
    ELSE None

normalize_race(race_date) ==
    IF race_date # NoneDate THEN replace_midnight(race_date) ELSE NoneDate

month_calendar_data_protocol1(year, month, bout_set, maint_set, race_date) ==
    LET weeks == monthcalendar(year, month)
        race_norm == normalize_race(race_date)
    IN  [w \in 1..Len(weeks) |->
          [c \in 1..7 |->
            LET day == weeks[w][c]
            IN  IF day = 0
                THEN EmptyCell
                ELSE Cell(day, cell_type_protocol1(
                                 replace_midnight(datetime(year, month, day)),
                                 bout_set, maint_set, race_norm))]]

month_calendar_data_protocol2(year, month, bout1_set, maint_set, bout2_set, race_date) ==
    LET weeks == monthcalendar(year, month)
        race_norm == normalize_race(race_date)
    IN  [w \in 1..Len(weeks) |->
          [c \in 1..7 |->
            LET day == weeks[w][c]
            IN  IF day = 0
                THEN EmptyCell
                ELSE Cell(day, cell_type_protocol2(
                                 replace_midnight(datetime(year, month, day)),
                                 bout1_set, maint_set, bout2_set, race_norm))]]

\* tuple order of (year, month) pairs, as sorted() compares them
pair_less(a, b) == a[1] < b[1] \/ (a[1] = b[1] /\ a[2] < b[2])

RECURSIVE sorted(_)
sorted(S) ==
    IF S = {} THEN <<>>
    ELSE LET least == CHOOSE a \in S : \A b \in S \ {a} : pair_less(a, b)
         IN  <<least>> \o sorted(S \ {least})

\* variant: the race date is not added to the dates
months_to_show_no_race(dates, race_date) ==
    LET all_d == {replace_midnight(d) : d \in Range(dates)}
    IN  sorted({<<year_of(d), month_of(d)>> : d \in all_d})

months_to_show(dates, race_date) ==
    LET all_d == {replace_midnight(d) : d \in Range(dates)}
                   \cup {replace_midnight(race_date)}
    IN  sorted({<<year_of(d), month_of(d)>> : d \in all_d})

----------------------------------------------------------------------------
(* The request handler index()                                             *)

VARIABLES pc, date_str, race_date, error,
          protocol1_bout, protocol1_maintenance,
          protocol2_bout1, protocol2_maint, protocol2_bout2,
          protocol1_calendar_months, protocol2_calendar_months

index_vars == <<pc, date_str, race_date, error,
                protocol1_bout, protocol1_maintenance,
                protocol2_bout1, protocol2_maint, protocol2_bout2,
                protocol1_calendar_months, protocol2_calendar_months>>

\* The form field race_date: empty, text that is not YYYY-MM-DD, or three
\* numbers written as YYYY-MM-DD
EmptyText == [kind |-> "empty", y |-> 0, m |-> 0, d |-> 0]
Malformed == [kind |-> "malformed", y |-> 0, m |-> 0, d |-> 0]
YmdText(y, m, d) == [kind |-> "ymd", y |-> y, m |-> m, d |-> d]
TextOfOrd(o) == YmdText(ord2ymd(o)[1], ord2ymd(o)[2], ord2ymd(o)[3])

\* datetime.strptime(date_str, "%Y-%m-%d") does not raise ValueError
strptime_ok(text) ==
    /\ text.kind = "ymd"
    /\ text.y >= 1 /\ text.y <= 9999
    /\ text.m >= 1 /\ text.m <= 12
    /\ text.d >= 1 /\ text.d <= days_in_month(text.y, text.m)

strptime(text) == datetime(text.y, text.m, text.d)

\* first days of the windows of submitted race dates
WindowStarts ==
    { ymd2ord(2024, 8, 4), ymd2ord(2024, 3, 14), ymd2ord(2023, 1, 1),
      ymd2ord(2100, 3, 12), ymd2ord(2000, 3, 12), MaxOrdinal - WindowDays + 1 }

RaceOrdinals ==
    (1..EarlyDays) \cup UNION {s..(s + WindowDays - 1) : s \in WindowStarts}

FormTexts ==
    {EmptyText, Malformed, YmdText(2023, 2, 29), YmdText(2024, 13, 1),
     YmdText(2024, 4, 31), YmdText(0, 1, 1)}
      \cup {TextOfOrd(o) : o \in RaceOrdinals \cap (MinOrdinal..MaxOrdinal)}

\* lines 171-179 followed by the assignments of lines 182-189
SetLocals(text, rd, err) ==
    /\ date_str' = text
    /\ race_date' = rd
    /\ error' = err
    /\ protocol1_bout' = <<>>
    /\ protocol1_maintenance' = <<>>
    /\ protocol2_bout1' = <<>>
    /\ protocol2_maint' = <<>>
    /\ protocol2_bout2' = <<>>
    /\ protocol1_calendar_months' = <<>>
    /\ protocol2_calendar_months' = <<>>

Idle == pc \in {"idle", "rendered", "raised"}

\* lines 171-181, 215: a GET request renders the empty page
Get ==
    /\ Idle
    /\ pc' = "rendered"
    /\ SetLocals(EmptyText, NoneDate, None)

\* lines 171-189: a POST request with the form field text
Post(text) ==
    /\ Idle
    /\ IF text.kind = "empty"
       THEN /\ pc' = "rendered"
            /\ SetLocals(text, NoneDate, "Please enter a race date.")
       ELSE IF ~strptime_ok(text)
       THEN /\ pc' = "rendered"
            /\ SetLocals(text, NoneDate, "Invalid date format. Use YYYY-MM-DD.")
       ELSE /\ pc' = "parsed"
            /\ SetLocals(text, strptime(text), None)

\* lines 190-192; an OverflowError is not caught by the handler
Schedules ==
    /\ pc = "parsed"
    /\ race_date # NoneDate /\ error = None
    /\ LET p1 == protocol1_sessions(race_date)
           p2 == protocol2_sessions(race_date)
       IN  IF p1.raised \/ p2.raised
           THEN /\ pc' = "raised"
                /\ UNCHANGED <<protocol1_bout, protocol1_maintenance,
                               protocol2_bout1, protocol2_maint, protocol2_bout2>>
           ELSE /\ pc' = "scheduled"
                /\ protocol1_bout' = p1.bout
                /\ protocol1_maintenance' = p1.maintenance
                /\ protocol2_bout1' = p2.bout1
                /\ protocol2_maint' = p2.maintenance
                /\ protocol2_bout2' = p2.bout2
    /\ UNCHANGED <<date_str, race_date, error,
                   protocol1_calendar_months, protocol2_calendar_months>>

\* lines 194-202
Protocol1Calendar ==
    /\ pc = "scheduled"
    /\ LET p1_all == protocol1_bout \o protocol1_maintenance
           p1_bout_set == sessions_to_set(protocol1_bout)
           p1_maint_set == sessions_to_set(protocol1_maintenance)
           months == months_to_show(p1_all, race_date)
       IN  protocol1_calendar_months' =
             [i \in 1..Len(months) |->
                [y |-> months[i][1], m |-> months[i][2],
                 grid |-> month_calendar_data_protocol1(
                            months[i][1], months[i][2],
                            p1_bout_set, p1_maint_set, race_date)]]
    /\ pc' = "p1_built"
    /\ UNCHANGED <<date_str, race_date, error, protocol1_bout, protocol1_maintenance,
                   protocol2_bout1, protocol2_maint, protocol2_bout2,
                   protocol2_calendar_months>>

\* lines 204-213
Protocol2Calendar ==
    /\ pc = "p1_built"
    /\ LET p2_bout1_set == sessions_to_set(protocol2_bout1)
           p2_maint_set == sessions_to_set(protocol2_maint)
           p2_bout2_set == sessions_to_set(protocol2_bout2)
           p2_all == protocol2_bout1 \o protocol2_maint \o protocol2_bout2
           months == months_to_show(p2_all, race_date)
       IN  protocol2_calendar_months' =
             [i \in 1..Len(months) |->
                [y |-> months[i][1], m |-> months[i][2],
                 grid |-> month_calendar_data_protocol2(
                            months[i][1], months[i][2],
                            p2_bout1_set, p2_maint_set, p2_bout2_set, race_date)]]
    /\ pc' = "p2_built"
    /\ UNCHANGED <<date_str, race_date, error, protocol1_bout, protocol1_maintenance,
                   protocol2_bout1, protocol2_maint, protocol2_bout2,
                   protocol1_calendar_months>>

\* lines 215-227
Render ==
    /\ pc = "p2_built"
    /\ pc' = "rendered"
    /\ UNCHANGED <<date_str, race_date, error, protocol1_bout, protocol1_maintenance,
                   protocol2_bout1, protocol2_maint, protocol2_bout2,
                   protocol1_calendar_months, protocol2_calendar_months>>

----------------------------------------------------------------------------
(* The functions called on their own                                       *)

VARIABLES s_race, s_p1, s_p2,
          g_year, g_month, g_bout, g_maint, g_bout2, g_race, g_grid1, g_grid2,
          m_dates, m_race, m_months

sched_vars == <<s_race, s_p1, s_p2>>
grid_vars == <<g_year, g_month, g_bout, g_maint, g_bout2, g_race, g_grid1, g_grid2>>
months_vars == <<m_dates, m_race, m_months>>
vars == <<index_vars, sched_vars, grid_vars, months_vars>>

\* a result not yet returned is <<>>, a returned result r is <<r>>
NotCalled == <<>>
Returned(r) == <<r>>

Noon == 12 * 3600
TimesOfDay == {0, Noon}

SchedIdle == s_race = NoneDate /\ s_p1 = NotCalled /\ s_p2 = NotCalled
GridIdle ==
    /\ g_year = 0 /\ g_month = 0
    /\ g_bout = {} /\ g_maint = {} /\ g_bout2 = {}
    /\ g_race = NoneDate /\ g_grid1 = NotCalled /\ g_grid2 = NotCalled
MonthsIdle == m_dates = <<>> /\ m_race = NoneDate /\ m_months = NotCalled

\* race dates the schedulers are called with
SchedInputs ==
    {[ord |-> o, tod |-> t] : o \in RaceOrdinals \cap (MinOrdinal..MaxOrdinal),
                              t \in TimesOfDay}

CallProtocol1 ==
    /\ s_p1 = NotCalled
    /\ s_p1' = Returned(protocol1_sessions(s_race))
    /\ UNCHANGED <<s_race, s_p2, index_vars, grid_vars, months_vars>>

CallProtocol2 ==
    /\ s_p2 = NotCalled
    /\ s_p2' = Returned(protocol2_sessions(s_race))
    /\ UNCHANGED <<s_race, s_p1, index_vars, grid_vars, months_vars>>

\* dates and months the grid builders are called with
GridStart == ymd2ord(2024, 2, 29)
GridDates ==
    {[ord |-> GridStart + i, tod |-> 0] : i \in 0..(GridDays - 1)}
      \cup {[ord |-> GridStart, tod |-> Noon]}
GridMonths == {<<2024, 2>>, <<2024, 3>>}

CallGrid1 ==
    /\ g_grid1 = NotCalled /\ g_grid2 = NotCalled
    /\ g_grid1' = Returned(month_calendar_data_protocol1(
                             g_year, g_month, g_bout, g_maint, g_race))
    /\ UNCHANGED <<g_year, g_month, g_bout, g_maint, g_bout2, g_race, g_grid2,
                   index_vars, sched_vars, months_vars>>

CallGrid2 ==
    /\ g_grid1 = NotCalled /\ g_grid2 = NotCalled
    /\ g_grid2' = Returned(month_calendar_data_protocol2(
                             g_year, g_month, g_bout, g_maint, g_bout2, g_race))
    /\ UNCHANGED <<g_year, g_month, g_bout, g_maint, g_bout2, g_race, g_grid1,
                   index_vars, sched_vars, months_vars>>

\* dates months_to_show is called with
MonthDates ==
    { [ord |-> ymd2ord(2023, 12, 31), tod |-> Noon],
      [ord |-> ymd2ord(2024, 1, 1), tod |-> 0],
      [ord |-> ymd2ord(2024, 1, 31), tod |-> Noon],
      [ord |-> ymd2ord(2024, 2, 29), tod |-> 0],
      [ord |-> ymd2ord(2023, 2, 1), tod |-> 0],
      [ord |-> ymd2ord(2024, 12, 15), tod |-> 0] }

SeqsUpTo(S, n) == UNION {[1..k -> S] : k \in 0..n}

CallMonths ==
    /\ m_months = NotCalled
    /\ m_months' = Returned(months_to_show(m_dates, m_race))
    /\ UNCHANGED <<m_dates, m_race, index_vars, sched_vars, grid_vars>>

----------------------------------------------------------------------------
(* Specifications                                                          *)

IndexInit ==
    /\ pc = "idle"
    /\ date_str = EmptyText
    /\ race_date = NoneDate
    /\ error = None
    /\ protocol1_bout = <<>>
    /\ protocol1_maintenance = <<>>
    /\ protocol2_bout1 = <<>>
    /\ protocol2_maint = <<>>
    /\ protocol2_bout2 = <<>>
    /\ protocol1_calendar_months = <<>>
    /\ protocol2_calendar_months = <<>>

\* the web application: requests are handled one after the other
Init == IndexInit /\ SchedIdle /\ GridIdle /\ MonthsIdle

Next ==
    \/ Get /\ UNCHANGED <<sched_vars, grid_vars, months_vars>>
    \/ \E text \in FormTexts :
         Post(text) /\ UNCHANGED <<sched_vars, grid_vars, months_vars>>
    \/ Schedules /\ UNCHANGED <<sched_vars, grid_vars, months_vars>>
    \/ Protocol1Calendar /\ UNCHANGED <<sched_vars, grid_vars, months_vars>>
    \/ Protocol2Calendar /\ UNCHANGED <<sched_vars, grid_vars, months_vars>>
    \/ Render /\ UNCHANGED <<sched_vars, grid_vars, months_vars>>

Spec == Init /\ [][Next]_vars

\* the scheduler called with any race datetime
SchedInit ==
    /\ IndexInit /\ GridIdle /\ MonthsIdle
    /\ s_race \in SchedInputs /\ s_p1 = NotCalled /\ s_p2 = NotCalled

SchedNext == CallProtocol1 \/ CallProtocol2

SpecSched == SchedInit /\ [][SchedNext]_vars

\* the grid builders called with any date sets
GridInit ==
    /\ IndexInit /\ SchedIdle /\ MonthsIdle
    /\ \E ym \in GridMonths : g_year = ym[1] /\ g_month = ym[2]
    /\ g_bout \in SUBSET GridDates
    /\ g_maint \in SUBSET GridDates
    /\ g_bout2 \in SUBSET GridDates
    /\ g_race \in GridDates \cup {NoneDate}
    /\ g_grid1 = NotCalled /\ g_grid2 = NotCalled

GridNext == CallGrid1 \/ CallGrid2

SpecGrid == GridInit /\ [][GridNext]_vars

\* months_to_show called with any list of dates
MonthsInit ==
    /\ IndexInit /\ SchedIdle /\ GridIdle
    /\ m_dates \in SeqsUpTo(MonthDates, MaxDates)
    /\ m_race \in MonthDates
    /\ m_months = NotCalled

MonthsNext == CallMonths

SpecMonths == MonthsInit /\ [][MonthsNext]_vars

----------------------------------------------------------------------------
(* Properties of the schedulers (SpecSched)                                *)

\* the calendar days of a list of datetimes, as ordinals
Ords(dates) == [i \in 1..Len(dates) |-> dates[i].ord]
\* ordinal r moved back by each entry of a list of day counts
DaysBefore(r, days) == [i \in 1..Len(days) |-> r - days[i]]
Distinct(q) == \A i, j \in 1..Len(q) : i # j => q[i] # q[j]
Increasing(q) == \A i, j \in 1..Len(q) : i < j => q[i] < q[j]
Ymd(o) == <<ord2ymd(o)[1], ord2ymd(o)[2], ord2ymd(o)[3]>>

\* weekday of an ordinal, 0 = Monday: 0001-01-01 (ordinal 1) is a Monday
WeekdayOfOrd(o) == (o - 1) % 7
\* number of the Monday-to-Sunday week an ordinal lies in
CalendarWeek(o) == (o - 1) \div 7
\* the Monday m with m <= o <= m + 6
MondayOnOrBefore(o) == CHOOSE m \in (o - 6)..o : WeekdayOfOrd(m) = 0

P1Returned == s_p1 # NotCalled /\ ~s_p1[1].raised
P2Returned == s_p2 # NotCalled /\ ~s_p2[1].raised

\* C1: protocol1_sessions(R) returns the bout R-19, R-18, ..., R-10 (10
\* consecutive days, in that order) and the maintenance R-7, R-5; the 12
\* dates are pairwise distinct and strictly earlier than R; for
\* R = 2024-08-10 the bout is 2024-07-22 .. 2024-07-31 and the maintenance
\* 2024-08-03, 2024-08-05.
C1_Protocol1Schedule ==
    P1Returned =>
      LET r == s_race.ord
          bout == Ords(s_p1[1].bout)
          maint == Ords(s_p1[1].maintenance)
      IN  /\ bout = <<r - 19, r - 18, r - 17, r - 16, r - 15,
                      r - 14, r - 13, r - 12, r - 11, r - 10>>
          /\ maint = <<r - 7, r - 5>>
          /\ Distinct(bout \o maint)
          /\ \A i \in 1..12 : (bout \o maint)[i] < r
          /\ Ymd(r) = <<2024, 8, 10>> =>
               /\ \A i \in 1..10 : Ymd(bout[i]) = <<2024, 7, 21 + i>>
               /\ Ymd(maint[1]) = <<2024, 8, 3>>
               /\ Ymd(maint[2]) = <<2024, 8, 5>>

C1_Witness ==
    /\ P1Returned
    /\ Ymd(s_race.ord) = <<2024, 8, 10>>
    /\ Len(s_p1[1].bout) = 10
    /\ Ymd(s_p1[1].bout[1].ord) = <<2024, 7, 22>>

\* the anchor of bout 1 as the specification words it
Bout1Anchor(r) == MondayOnOrBefore(r - 42) + (WeekdayOfOrd(r) - 5)

\* C2: protocol2_sessions(R) returns a bout1 of 11 distinct dates, the
\* anchor plus 0,1,3,4,5,7,8,10,11,12,13 days, where the anchor is the
\* Monday of the week containing R-42 plus (weekday(R) - 5) days; all lie
\* in [anchor, anchor+13]; for a Saturday race the anchor is that Monday.
C2_Bout1FromAnchor ==
    P2Returned =>
      LET r == s_race.ord
          anchor == Bout1Anchor(r)
          bout1 == Ords(s_p2[1].bout1)
      IN  /\ bout1 = <<anchor, anchor + 1, anchor + 3, anchor + 4, anchor + 5,
                       anchor + 7, anchor + 8, anchor + 10, anchor + 11,
                       anchor + 12, anchor + 13>>
          /\ Cardinality(Range(bout1)) = 11
          /\ \A i \in 1..Len(bout1) : anchor <= bout1[i] /\ bout1[i] <= anchor + 13
          /\ WeekdayOfOrd(r) = 5 =>
               /\ anchor = MondayOnOrBefore(r - 42)
               /\ WeekdayOfOrd(bout1[1]) = 0

C2_Witness ==
    /\ P2Returned
    /\ WeekdayOfOrd(s_race.ord) = 3
    /\ Len(s_p2[1].bout1) = 11
    /\ s_p2[1].bout1[1].ord = MondayOnOrBefore(s_race.ord - 42) - 2

C10_FixedDistances ==
    P2Returned =>
      LET r == s_race.ord
          all == Ords(s_p2[1].bout1 \o s_p2[1].maintenance \o s_p2[1].bout2)
      IN  /\ Ords(s_p2[1].bout1) =
               DaysBefore(r, <<47, 46, 44, 43, 42, 40, 39, 37, 36, 35, 34>>)
          /\ Ords(s_p2[1].maintenance) = DaysBefore(r, <<31, 28, 24, 21, 17, 14>>)
          /\ Increasing(all)
          /\ all[Len(all)] = r - 2

C10_Witness ==
    /\ P2Returned
    /\ WeekdayOfOrd(s_race.ord) = 6
    /\ s_p2[1].bout1[1].ord = s_race.ord - 47
    /\ s_p2[1].maintenance[6].ord = s_race.ord - 14

\* the weekday-shifted anchor of the maintenance block weeks_out weeks out
MaintenanceAnchor(r, weeks_out) ==
    MondayOnOrBefore(r - weeks_out * 7) + (WeekdayOfOrd(r) - 5)

\* a set of days lies in exactly 3 calendar weeks, two days in each
TwoPerCalendarWeek(days) ==
    LET weeks == {CalendarWeek(o) : o \in days}
    IN  /\ Cardinality(weeks) = 3
        /\ \A w \in weeks : Cardinality({o \in days : CalendarWeek(o) = w}) = 2

\* C3 as stated: on every race weekday the maintenance list has 6 distinct
\* dates that fall in exactly 3 distinct Monday-to-Sunday calendar weeks,
\* two dates in each.
C3_CalendarWeeks ==
    P2Returned =>
      LET maint == Range(Ords(s_p2[1].maintenance))
      IN  /\ Len(s_p2[1].maintenance) = 6
          /\ Cardinality(maint) = 6
          /\ TwoPerCalendarWeek(maint)

\* C3 amended: the maintenance list has 6 distinct dates, anchor+2 and
\* anchor+5 of the weeks 4, 3 and 2 weeks before the race, two in each of
\* the three disjoint 7-day blocks that start at those shifted anchors;
\* they lie two by two in 3 Monday-to-Sunday calendar weeks exactly when
\* the race is on Thursday..Sunday, and in 4 calendar weeks when it is on
\* Monday..Wednesday.
C3_ShiftedBlocks ==
    P2Returned =>
      LET r == s_race.ord
          maint == Ords(s_p2[1].maintenance)
          days == Range(maint)
          anchors == <<MaintenanceAnchor(r, 4), MaintenanceAnchor(r, 3),
                       MaintenanceAnchor(r, 2)>>
          block(k) == anchors[k]..(anchors[k] + 6)
      IN  /\ Len(maint) = 6
          /\ Cardinality(days) = 6
          /\ maint = <<anchors[1] + 2, anchors[1] + 5, anchors[2] + 2,
                       anchors[2] + 5, anchors[3] + 2, anchors[3] + 5>>
          /\ \A k \in 1..3 : Cardinality(days \cap block(k)) = 2
          /\ \A k, l \in 1..3 : k # l => block(k) \cap block(l) = {}
          /\ TwoPerCalendarWeek(days) <=> WeekdayOfOrd(r) >= 3
          /\ WeekdayOfOrd(r) < 3 =>
               Cardinality({CalendarWeek(o) : o \in days}) = 4

\* a Monday race: the six sessions lie in four calendar weeks
C3_Witness ==
    /\ P2Returned
    /\ WeekdayOfOrd(s_race.ord) = 0
    /\ Len(s_p2[1].maintenance) = 6
    /\ Cardinality({CalendarWeek(d.ord) : d \in Range(s_p2[1].maintenance)}) = 4

\* C9 as stated: for every valid race date, the earliest ones included,
\* both schedulers return complete schedules (12 and 26 dates) and none
\* raises.
C9_NeverRaises ==
    /\ s_p1 # NotCalled =>
         /\ ~s_p1[1].raised
         /\ Len(s_p1[1].bout) + Len(s_p1[1].maintenance) = 12
    /\ s_p2 # NotCalled =>
         /\ ~s_p2[1].raised
         /\ Len(s_p2[1].bout1) + Len(s_p2[1].maintenance) + Len(s_p2[1].bout2) = 26

\* C9 amended: protocol1_sessions returns its 12 dates exactly for the race
\* dates from 0001-01-20 on and protocol2_sessions its 26 dates exactly for
\* the race dates from 0001-02-17 on, up to the last date 9999-12-31; for
\* earlier race dates the call raises OverflowError.
C9_RaisesOnlyBeforeFirstSession ==
    /\ s_p1 # NotCalled =>
         /\ ~s_p1[1].raised <=> s_race.ord >= ymd2ord(1, 1, 20)
         /\ ~s_p1[1].raised =>
              Len(s_p1[1].bout) + Len(s_p1[1].maintenance) = 12
    /\ s_p2 # NotCalled =>
         /\ ~s_p2[1].raised <=> s_race.ord >= ymd2ord(1, 2, 17)
         /\ ~s_p2[1].raised =>
              Len(s_p2[1].bout1) + Len(s_p2[1].maintenance)
                + Len(s_p2[1].bout2) = 26

\* race date 0001-02-16: protocol 1 returns, protocol 2 raises
C9_Witness ==
    /\ Ymd(s_race.ord) = <<1, 2, 16>>
    /\ s_p1 # NotCalled /\ ~s_p1[1].raised
    /\ s_p2 # NotCalled /\ s_p2[1].raised

----------------------------------------------------------------------------
(* Properties of the grid builders (SpecGrid)                              *)

\* the in-month cells of a grid, each with the midnight of its day
InMonthCells(grid, year, month) ==
    LET at(w, c) ==
          [cell |-> grid[w][c],
           date |-> [ord |-> ymd2ord(year, month, 1) + grid[w][c].day - 1,
                     tod |-> 0]]
    IN  {at(p[1], p[2]) :
           p \in {q \in (1..Len(grid)) \X (1..7) : grid[q[1]][q[2]].day # NoDay}}

IsRaceDay(date) == g_race # NoneDate /\ date.ord = g_race.ord

\* C5: every in-month cell of month_calendar_data_protocol2 gets its
\* category by the precedence race > bout1 > maintenance > bout2 > none and
\* every in-month cell of month_calendar_data_protocol1 by race > bout >
\* maintenance > none, whatever the input sets: a race day that is also a
\* session day shows race, a day in both the maintenance and the bout2 set
\* shows maintenance.
C5_Precedence ==
    /\ g_grid2 # NotCalled =>
         \A e \in InMonthCells(g_grid2[1], g_year, g_month) :
            LET t == e.cell.type
                race == IsRaceDay(e.date)
                b1 == e.date \in g_bout
                mt == e.date \in g_maint
                b2 == e.date \in g_bout2
            IN  /\ t = "race" <=> race
                /\ t = "bout1" <=> ~race /\ b1
                /\ t = "maintenance" <=> ~race /\ ~b1 /\ mt
                /\ t = "bout2" <=> ~race /\ ~b1 /\ ~mt /\ b2
                /\ t = None <=> ~race /\ ~b1 /\ ~mt /\ ~b2
    /\ g_grid1 # NotCalled =>
         \A e \in InMonthCells(g_grid1[1], g_year, g_month) :
            LET t == e.cell.type
                race == IsRaceDay(e.date)
                b == e.date \in g_bout
                mt == e.date \in g_maint
            IN  /\ t = "race" <=> race
                /\ t = "bout" <=> ~race /\ b
                /\ t = "maintenance" <=> ~race /\ ~b /\ mt
                /\ t = None <=> ~race /\ ~b /\ ~mt

\* 2024-03-01 is in the maintenance and the bout2 set and shows maintenance,
\* and the race day 2024-02-29 is in all three sets and shows race
C5_Witness ==
    /\ g_grid2 # NotCalled
    /\ g_year = 2024 /\ g_month = 2
    /\ g_race = [ord |-> ymd2ord(2024, 2, 29), tod |-> Noon]
    /\ datetime(2024, 2, 29) \in (g_bout \cap g_maint) \cap g_bout2
    /\ g_grid2[1][5][4] = Cell(29, "race")
    /\ datetime(2024, 3, 1) \in (g_maint \cap g_bout2) \ g_bout

----------------------------------------------------------------------------
(* Properties of months_to_show (SpecMonths)                               *)

\* the month (y, m) contains the calendar day with ordinal o
MonthContains(ym, o) ==
    /\ ymd2ord(ym[1], ym[2], 1) <= o
    /\ o <= ymd2ord(ym[1], ym[2], days_in_month(ym[1], ym[2]))

\* C6: months_to_show returns exactly the (year, month) pairs that contain
\* a session date or the race date: none is missing, none contains no such
\* date, none appears twice, and they are in ascending chronological order.
C6_ExactMonths ==
    m_months # NotCalled =>
      LET months == m_months[1]
          days == {d.ord : d \in Range(m_dates)} \cup {m_race.ord}
      IN  /\ \A o \in days : \E i \in 1..Len(months) : MonthContains(months[i], o)
          /\ \A i \in 1..Len(months) : \E o \in days : MonthContains(months[i], o)
          /\ Distinct(months)
          /\ \A i, j \in 1..Len(months) :
                i < j => months[i][1] * 12 + months[i][2] < months[j][1] * 12 + months[j][2]

\* dates listed out of order and twice, the race in a month of its own
C6_Witness ==
    /\ m_months # NotCalled
    /\ m_dates = <<datetime(2024, 1, 1),
                   [ord |-> ymd2ord(2023, 12, 31), tod |-> Noon],
                   datetime(2024, 1, 1)>>
    /\ m_race = datetime(2023, 2, 1)
    /\ m_months[1] = <<<<2023, 2>>, <<2023, 12>>, <<2024, 1>>>>

----------------------------------------------------------------------------
(* Properties of a handled request (Spec)                                  *)

Scheduled == pc \in {"scheduled", "p1_built", "p2_built"}
Protocol1Built == pc \in {"p1_built", "p2_built"}
Protocol2Built == pc = "p2_built"

OrdSet(dates) == {d.ord : d \in Range(dates)}

\* C8: the normalized category sets are pairwise disjoint and none contains
\* the race date: bout and maintenance of Protocol 1 share no date, and
\* bout1, maintenance and bout2 of Protocol 2 share no date.
C8_DisjointCategorySets ==
    Scheduled =>
      LET race_norm == replace_midnight(race_date)
          p1_bout_set == sessions_to_set(protocol1_bout)
          p1_maint_set == sessions_to_set(protocol1_maintenance)
          p2_bout1_set == sessions_to_set(protocol2_bout1)
          p2_maint_set == sessions_to_set(protocol2_maint)
          p2_bout2_set == sessions_to_set(protocol2_bout2)
      IN  /\ p1_bout_set \cap p1_maint_set = {}
          /\ p2_bout1_set \cap p2_maint_set = {}
          /\ p2_bout1_set \cap p2_bout2_set = {}
          /\ p2_maint_set \cap p2_bout2_set = {}
          /\ race_norm \notin p1_bout_set \cup p1_maint_set
          /\ race_norm \notin (p2_bout1_set \cup p2_maint_set) \cup p2_bout2_set
          /\ Cardinality(p1_bout_set \cup p1_maint_set) = 12
          /\ Cardinality((p2_bout1_set \cup p2_maint_set) \cup p2_bout2_set) = 26

C8_Witness ==
    /\ pc = "scheduled"
    /\ Ymd(race_date.ord) = <<2024, 3, 14>>
    /\ Cardinality(sessions_to_set(protocol1_bout)) = 10
    /\ Cardinality(sessions_to_set(protocol2_maint)) = 6
    /\ datetime(2024, 2, 29) \in sessions_to_set(protocol1_bout)

\* the category the day with ordinal o must show in each protocol
Category1(o) ==
    IF o = race_date.ord THEN "race"
    ELSE IF o \in OrdSet(protocol1_bout) THEN "bout"
    ELSE IF o \in OrdSet(protocol1_maintenance) THEN "maintenance"
    ELSE None

Category2(o) ==
    IF o = race_date.ord THEN "race"
    ELSE IF o \in OrdSet(protocol2_bout1) THEN "bout1"
    ELSE IF o \in OrdSet(protocol2_maint) THEN "maintenance"
    ELSE IF o \in OrdSet(protocol2_bout2) THEN "bout2"
    ELSE None

\* the grids of the month of the day with ordinal o
GridsOf(months, o) ==
    {i \in 1..Len(months) : months[i].y = Ymd(o)[1] /\ months[i].m = Ymd(o)[2]}

\* the cells of a grid that carry the day number of the day with ordinal o
CellsOf(grid, o) ==
    {grid[p[1]][p[2]] :
       p \in {q \in (1..Len(grid)) \X (1..7) : grid[q[1]][q[2]].day = Ymd(o)[3]}}

\* every day that a rendered month can contain: the earliest session is 47
\* days before the race
DaysAround(r) == ((r - 80)..(r + 31)) \cap (MinOrdinal..MaxOrdinal)

\* C7: after the full computation every session date of a protocol and the
\* race date is an in-month cell of a rendered grid of that protocol, with
\* its category (race, bout/bout1, maintenance, bout2), and every in-month
\* cell of another date carries no category.
C7_GridCompleteness ==
    /\ Protocol1Built =>
         /\ \A o \in OrdSet(protocol1_bout \o protocol1_maintenance) \cup {race_date.ord} :
               /\ Category1(o) # None
               /\ GridsOf(protocol1_calendar_months, o) # {}
         /\ \A o \in DaysAround(race_date.ord) :
               \A i \in GridsOf(protocol1_calendar_months, o) :
                  CellsOf(protocol1_calendar_months[i].grid, o)
                    = {Cell(Ymd(o)[3], Category1(o))}
    /\ Protocol2Built =>
         /\ \A o \in OrdSet(protocol2_bout1 \o protocol2_maint \o protocol2_bout2)
                       \cup {race_date.ord} :
               /\ Category2(o) # None
               /\ GridsOf(protocol2_calendar_months, o) # {}
         /\ \A o \in DaysAround(race_date.ord) :
               \A i \in GridsOf(protocol2_calendar_months, o) :
                  CellsOf(protocol2_calendar_months[i].grid, o)
                    = {Cell(Ymd(o)[3], Category2(o))}

\* race on Sunday 2023-01-01: January holds nothing but the race
C7_Witness ==
    /\ pc = "p2_built"
    /\ Ymd(race_date.ord) = <<2023, 1, 1>>
    /\ Len(protocol1_calendar_months) = 2
    /\ Len(protocol2_calendar_months) = 3
    /\ protocol2_calendar_months[3].grid[1][7] = Cell(1, "race")
    /\ protocol2_calendar_months[2].grid[5][5] = Cell(30, "bout2")

====
